---- MODULE Spec2Model ----
(***************************************************************************)
(* Model of the summarize Lambda handlers of the Personal Cloud Assistant  *)
(* (src/unnamed/part_006): the Bedrock variant (lines 1-396) and the       *)
(* OpenAI variant (lines 398-896).  A text is a sequence of one-character  *)
(* strings; the JavaScript string operations the handlers use are          *)
(* operators over such sequences.  One request is followed from its        *)
(* arrival to its response; the handler is cut at its awaits on the        *)
(* storage, OCR and generative-text services.                              *)
(***************************************************************************)
EXTENDS Integers, Sequences, FiniteSets, TLC

VARIABLES
    variant,          \* which deployment handles the request: "bedrock" | "openai"
    apiKey,           \* OPENAI_API_KEY is configured (process.env, OpenAI variant)
    pc,               \* "idle" | "storage" | "ocr" | "gen" | "done"
    req,              \* the event: method, userId, body
    fileBuffer,       \* handler local fileBuffer (<<>> while null)
    hasBuffer,        \* fileBuffer is not null
    textToSummarize,  \* handler local textToSummarize
    lastText,         \* handler local lastText
    calls,            \* external service calls issued so far, in order
    metrics,          \* metric names passed to sendMetric, in order
    genOutcome,       \* what the generative-text call came back with
    stage,            \* how far the request got: "Preparing" | "Extracting" |
                      \* "Gating" | "Summarizing"
    sanitized,        \* what sanitizeText returned (line 160 / 571)
    resp,             \* the handler's return value
    ocrOutcome,       \* what the OCR call came back with
    sanitizerInput,   \* the text handed to sanitizeText (line 160 / 571)
    timer,            \* the timer of the generative-text call (line 197):
                      \* "unset" | "armed" | "fired" | "cleared"
    probe,            \* the arguments of a helper function called on its own
    returned          \* what that call returned

vars == <<variant, apiKey, pc, req, fileBuffer, hasBuffer, textToSummarize,
          lastText, calls, metrics, genOutcome, stage, sanitized, resp,
          ocrOutcome, sanitizerInput, timer, probe, returned>>

-----------------------------------------------------------------------------
(* Characters *)

\* a function over 1..n as a sequence value
Tuple(f) == SubSeq(f, 1, Len(f))

\* a string literal as a sequence of one-character strings
Chars(str) == Tuple([i \in 1..Len(str) |-> SubSeq(str, i, i)])

Range(s) == {s[i] : i \in 1..Len(s)}

Min(a, b) == IF a < b THEN a ELSE b
Max(a, b) == IF a > b THEN a ELSE b

\* /[A-Za-z]/
Letters == Range(Chars("abcdefghijklmnopqrstuvwxyzABCDEFGHIJKLMNOPQRSTUVWXYZ"))

\* /[AEIOUaeiou]/
Vowels == Range(Chars("AEIOUaeiou"))

\* the grave accent (0x60), which a TLA+ string cannot hold
GRAVE == "<60>"

\* /[\x20-\x7E]/
Printable ==
    Letters \cup Range(Chars("0123456789"))
            \cup Range(Chars(" !\"#$%&'()*+,-./:;<=>?@[\\]^_{|}~"))
            \cup {GRAVE}

\* /\s/ : the ASCII members, and the no-break space of a latin1 or utf-8 text
NBSP == "<A0>"
Whitespace == {" ", "\t", "\n", "\r", "\f", NBSP}

\* /./ does not match a line terminator
LineTerminators == {"\n", "\r"}

\* /[.!?]/
SentenceEnd == {".", "!", "?"}

-----------------------------------------------------------------------------
(* JavaScript string operations *)

Idx(s) == Tuple([i \in 1..Len(s) |-> i])

\* String.prototype.trim
Trim(s) ==
    LET keep == SelectSeq(Idx(s), LAMBDA i : s[i] \notin Whitespace)
    IN  IF Len(keep) = 0 THEN <<>> ELSE SubSeq(s, keep[1], keep[Len(keep)])

\* s.substring(0, n) and s.slice(0, n), n >= 0
Substring(s, n) == SubSeq(s, 1, Min(n, Len(s)))

\* s.replace(/[class]+/g, ' '), or /[^class]+/g when negated: every maximal
\* run of matching characters becomes one space
ReplaceRuns(s, class, negated) ==
    LET match == [i \in 1..Len(s) |-> (s[i] \in class) # negated]
        keep  == SelectSeq(Idx(s), LAMBDA i : ~match[i] \/ i = 1 \/ ~match[i - 1])
    IN  Tuple([k \in 1..Len(keep) |-> IF match[keep[k]] THEN " " ELSE s[keep[k]]])

\* s.split(c) for a one-character separator set: one piece per separator,
\* plus one; empty pieces are kept
SplitEach(s, seps) ==
    LET at == SelectSeq(Idx(s), LAMBDA i : s[i] \in seps)
        m  == Len(at)
    IN  Tuple([k \in 1..(m + 1) |->
                  SubSeq(s, IF k = 1 THEN 1 ELSE at[k - 1] + 1,
                            IF k = m + 1 THEN Len(s) ELSE at[k] - 1)])

\* s.split(/[class]+/) : the pieces between maximal separator runs; only the
\* first and the last piece can be empty
SplitRuns(s, seps) ==
    LET p == SplitEach(s, seps)
        n == Len(p)
        inner == SelectSeq(Idx(p), LAMBDA k : k = 1 \/ k = n \/ Len(p[k]) > 0)
    IN  Tuple([k \in 1..Len(inner) |-> p[inner[k]]])

\* parts.join(sep)
RECURSIVE JoinRange(_, _, _, _)
JoinRange(parts, sep, lo, hi) ==
    IF lo > hi THEN <<>>
    ELSE IF lo = hi THEN parts[lo]
    ELSE JoinRange(parts, sep, lo, (lo + hi) \div 2) \o sep
         \o JoinRange(parts, sep, (lo + hi) \div 2 + 1, hi)

Join(parts, sep) == JoinRange(parts, sep, 1, Len(parts))

\* s.includes(sub)
Includes(s, sub) ==
    \E i \in 1..(Len(s) - Len(sub) + 1) : SubSeq(s, i, i + Len(sub) - 1) = sub

\* s.startsWith(pre)
StartsWith(s, pre) == Len(s) >= Len(pre) /\ SubSeq(s, 1, Len(pre)) = pre

\* (s.match(/[class]/g) || []).length
CountIn(s, class) == Len(SelectSeq(s, LAMBDA c : c \in class))

-----------------------------------------------------------------------------
(* scoreTextQuality: the score is the rational ScoreNum / ScoreDen.  The    *)
(* products exceed 32 bits for texts of a few thousand characters, so they  *)
(* are kept in two limbs, value = h * LIMB + l.                             *)

LIMB == 10000

Big(n) == [h |-> n \div LIMB, l |-> n % LIMB]

BigAdd(a, b) == [h |-> a.h + b.h + (a.l + b.l) \div LIMB, l |-> (a.l + b.l) % LIMB]

\* a * k for a small factor k
BigScale(a, k) == [h |-> a.h * k + (a.l * k) \div LIMB, l |-> (a.l * k) % LIMB]

BigLess(a, b) == a.h < b.h \/ (a.h = b.h /\ a.l < b.l)

WORD_SATURATION == 80

\* the counts scoreTextQuality takes of a text
QualityCounts(text) ==
    [total   |-> IF Len(text) = 0 THEN 1 ELSE Len(text),
     letters |-> CountIn(text, Letters),
     vowels  |-> CountIn(text, Vowels),
     words   |-> Len(SelectSeq(SplitRuns(text, Whitespace), LAMBDA w : Len(w) > 0))]

\* a score with the word count left unsaturated
ScoreNumUnsaturated(q) ==
    IF q.letters = 0 THEN Big(q.words)
    ELSE BigAdd(BigAdd(BigScale(Big(q.letters * q.letters), 200),
                       BigScale(Big(q.vowels * q.total), 120)),
                BigScale(Big(q.total * q.letters), q.words))

\* score = 0.5 * letters/total + 0.3 * vowels/letters + 0.2 * min(words/80, 1)
\*       = (200 L L + 120 V T + min(W, 80) T L) / (400 T L)      when L > 0
\*       = min(W, 80) / 400                                      when L = 0
ScoreNum(q) ==
    IF q.letters = 0 THEN Big(Min(q.words, WORD_SATURATION))
    ELSE BigAdd(BigAdd(BigScale(Big(q.letters * q.letters), 200),
                       BigScale(Big(q.vowels * q.total), 120)),
                BigScale(Big(q.total * q.letters), Min(q.words, WORD_SATURATION)))

ScoreDen(q) ==
    IF q.letters = 0 THEN Big(400) ELSE BigScale(Big(q.total * q.letters), 400)

\* scoreTextQuality(text).score < num / den
ScoreBelow(text, num, den) ==
    LET q == QualityCounts(text)
    IN  BigLess(BigScale(ScoreNum(q), den), BigScale(ScoreDen(q), num))

\* what scoreTextQuality returns: the score as the fraction num / den, and
\* the counts its ratios are made of
scoreTextQuality(text) ==
    LET q == QualityCounts(text)
    IN  [score |-> [num |-> ScoreNum(q), den |-> ScoreDen(q)],
         letters |-> q.letters, vowels |-> q.vowels, total |-> q.total,
         words |-> q.words]

-----------------------------------------------------------------------------
(* sanitizeText *)

MAX_TOKEN_CHARS == 60
MAX_VOWELLESS_CHARS == 5
MAX_SANITIZED_CHARS == 12000

\* a filter without the vowel rule
KeepTokenAnyConsonants(tok) ==
    /\ \E i \in 1..Len(tok) : tok[i] \in Letters
    /\ ~(Len(tok) > MAX_TOKEN_CHARS)

\* the filter callback of sanitizeText
KeepToken(tok) ==
    LET hasLetter == \E i \in 1..Len(tok) : tok[i] \in Letters
        hasVowel  == \E i \in 1..Len(tok) : tok[i] \in Vowels
    IN  /\ hasLetter
        /\ ~(~hasVowel /\ Len(tok) > MAX_VOWELLESS_CHARS)
        /\ ~(Len(tok) > MAX_TOKEN_CHARS)

\* a sanitizer that joins the kept tokens with two spaces
sanitizeTextWideJoin(text) ==
    LET cleaned  == Trim(ReplaceRuns(ReplaceRuns(text, Printable, TRUE),
                                     Whitespace, FALSE))
        tokens   == SplitEach(cleaned, {" "})
        filtered == SelectSeq(tokens, KeepToken)
        result   == Trim(Join(filtered, <<" ", " ">>))
    IN  IF Len(result) > MAX_SANITIZED_CHARS
        THEN Substring(result, MAX_SANITIZED_CHARS)
        ELSE result

\* a sanitizer without the cap
sanitizeTextUncapped(text) ==
    LET cleaned  == Trim(ReplaceRuns(ReplaceRuns(text, Printable, TRUE),
                                     Whitespace, FALSE))
        tokens   == SplitEach(cleaned, {" "})
        filtered == SelectSeq(tokens, KeepToken)
    IN  Trim(Join(filtered, <<" ">>))

sanitizeText(text) ==
    LET cleaned  == Trim(ReplaceRuns(ReplaceRuns(text, Printable, TRUE),
                                     Whitespace, FALSE))
        tokens   == SplitEach(cleaned, {" "})
        filtered == SelectSeq(tokens, KeepToken)
        result   == Trim(Join(filtered, <<" ">>))
    IN  IF Len(result) > MAX_SANITIZED_CHARS
        THEN Substring(result, MAX_SANITIZED_CHARS)
        ELSE result

-----------------------------------------------------------------------------
(* Buffers.  A byte is the one-character string of its latin1 character; a  *)
(* byte of a deflated stream is "~" followed by the character it inflates   *)
(* to, ZLIB opens a deflated stream, ZEND closes it and HIGH is any other  *)
(* byte above 0x7E.  Positions are 0-based as in the source: s[i + 1] is the           *)
(* character at position i.                                                 *)

HIGH == "<FF>"
ZLIB == "<78>"
ZEND == "<adler32>"
REPLACEMENT == "<FFFD>"

\* the plain ASCII bytes (printable, and the control characters written here)
Ascii == (Printable \ {GRAVE}) \cup {"\t", "\n", "\r", "\f"}

\* buffer.toString('latin1') : every byte is its own character
Latin1(buffer) == buffer

\* buffer.toString('utf-8') : an ASCII byte is its character, a byte that is
\* no part of a well-formed sequence becomes U+FFFD
Utf8(buffer) ==
    Tuple([i \in 1..Len(buffer) |->
              IF buffer[i] \in Ascii THEN buffer[i] ELSE REPLACEMENT])

\* what deflate makes of a text (used to write the stored files): the header,
\* the deflated bytes and the end of the stream
Deflate(text) ==
    <<ZLIB>> \o Tuple([i \in 1..Len(text) |-> "~" \o text[i]]) \o <<ZEND>>

IsDeflatedByte(b) == Len(b) = 2 /\ SubSeq(b, 1, 1) = "~"

\* the number of deflated bytes that follow the header
DeflatedLen(bytes) ==
    LET stop == SelectSeq(Idx(bytes), LAMBDA i : i >= 2 /\ ~IsDeflatedByte(bytes[i]))
    IN  IF Len(stop) = 0 THEN Len(bytes) - 1 ELSE stop[1] - 2

\* inflateSync(bytes) does not throw: a well-formed stream, whatever follows it
Inflatable(bytes) ==
    /\ Len(bytes) >= 2
    /\ bytes[1] = ZLIB
    /\ DeflatedLen(bytes) + 2 <= Len(bytes)
    /\ bytes[DeflatedLen(bytes) + 2] = ZEND

\* inflateSync(bytes), for Inflatable(bytes)
inflateSync(bytes) ==
    Tuple([i \in 1..DeflatedLen(bytes) |-> SubSeq(bytes[i + 1], 2, 2)])

\* s.indexOf(pat, from)
IndexOf(s, pat, from) ==
    LET hits == {j \in from..(Len(s) - Len(pat)) : SubSeq(s, j + 1, j + Len(pat)) = pat}
    IN  IF hits = {} THEN -1 ELSE CHOOSE j \in hits : \A k \in hits : j <= k

\* s.replace(/pat/g, rep) for a literal pattern: leftmost matches, left to right
RECURSIVE ReplaceFrom(_, _, _, _)
ReplaceFrom(s, pat, rep, i) ==
    LET j == IndexOf(s, pat, i)
    IN  IF j = -1 THEN SubSeq(s, i + 1, Len(s))
        ELSE SubSeq(s, i + 1, j) \o rep \o ReplaceFrom(s, pat, rep, j + Len(pat))

ReplaceAll(s, pat, rep) == ReplaceFrom(s, pat, rep, 0)

\* the position after the ")" that closes (?:\\.|[^\\)])*\) read from position j,
\* or -1 when the body cannot be closed
RECURSIVE LiteralEnd(_, _)
LiteralEnd(s, j) ==
    IF j >= Len(s) THEN -1
    ELSE IF s[j + 1] = ")" THEN j + 1
    ELSE IF s[j + 1] = "\\"
         THEN IF j + 1 < Len(s) /\ s[j + 2] \notin LineTerminators
              THEN LiteralEnd(s, j + 2)
              ELSE -1
    ELSE LiteralEnd(s, j + 1)

\* candidate.match(/\((?:\\.|[^\\)])*\)/g) || []
RECURSIVE MatchLiterals(_, _)
MatchLiterals(s, i) ==
    IF i >= Len(s) THEN <<>>
    ELSE LET e == IF s[i + 1] = "(" THEN LiteralEnd(s, i + 1) ELSE -1
         IN  IF e = -1 THEN MatchLiterals(s, i + 1)
             ELSE <<SubSeq(s, i + 1, e)>> \o MatchLiterals(s, e)

\* the cleaning of one literal string object, delimiters included
CleanLiteral(obj) ==
    LET inner == SubSeq(obj, 2, Len(obj) - 1)
        n  == ReplaceAll(inner, <<"\\", "n">>, <<" ">>)
        r  == ReplaceAll(n, <<"\\", "r">>, <<" ">>)
        t  == ReplaceAll(r, <<"\\", "t">>, <<" ">>)
        f  == ReplaceAll(t, <<"\\", "f">>, <<" ">>)
        b  == ReplaceAll(f, <<"\\", "\\">>, <<"\\">>)
    IN  Trim(ReplaceRuns(b, Whitespace, FALSE))

\* the text parts of a stream that is never inflated
StreamPartsNoInflate(streamContent) ==
    LET textObjects == MatchLiterals(Latin1(streamContent), 0)
    IN  SelectSeq(Tuple([k \in 1..Len(textObjects) |-> CleanLiteral(textObjects[k])]),
                  LAMBDA x : Len(x) > 0)

NonEmpty(parts) == SelectSeq(parts, LAMBDA x : Len(x) > 0)

\* the text parts one stream candidate contributes
StreamParts(streamContent) ==
    LET candidate == IF Inflatable(streamContent)
                     THEN Latin1(inflateSync(streamContent))
                     ELSE Latin1(streamContent)
        textObjects == MatchLiterals(candidate, 0)
    IN  NonEmpty(Tuple([k \in 1..Len(textObjects) |-> CleanLiteral(textObjects[k])]))

STREAM == Chars("stream")
ENDSTREAM == Chars("endstream")

\* lines 308-313: the next stream candidate at or after idx, if the loop does
\* not break
ScanCandidate(buffer, idx) ==
    LET raw == Latin1(buffer)
        streamPos == IndexOf(raw, STREAM, idx)
        start == IndexOf(raw, <<"\n">>, streamPos)
        endStreamPos == IndexOf(raw, ENDSTREAM, start)
        none == [found |-> FALSE, start |-> -1, endStreamPos |-> -1]
    IN  IF streamPos = -1 THEN none
        ELSE IF start = -1 THEN none
        ELSE IF endStreamPos = -1 THEN none
        ELSE [found |-> TRUE, start |-> start, endStreamPos |-> endStreamPos]

\* an iteration that leaves idx where it was
ScanIterationStalls(buffer, idx) ==
    LET c == ScanCandidate(buffer, idx)
    IN  IF ~c.found THEN [break |-> TRUE, idx |-> idx, parts |-> <<>>]
        ELSE [break |-> FALSE, idx |-> idx,
              parts |-> StreamParts(SubSeq(buffer, c.start + 2, c.endStreamPos))]

\* one iteration of the while loop (lines 308-337), entered with idx < raw.length
ScanIteration(buffer, idx) ==
    LET c == ScanCandidate(buffer, idx)
    IN  IF ~c.found THEN [break |-> TRUE, idx |-> idx, parts |-> <<>>]
        ELSE [break |-> FALSE, idx |-> c.endStreamPos + Len(ENDSTREAM),
              parts |-> StreamParts(SubSeq(buffer, c.start + 2, c.endStreamPos))]

\* the while loop of extractTextFromPdfBuffer, entered with idx and textParts
RECURSIVE ScanStreams(_, _, _)
ScanStreams(buffer, idx, textParts) ==
    IF ~(idx < Len(Latin1(buffer))) THEN textParts
    ELSE LET it == ScanIteration(buffer, idx)
         IN  IF it.break THEN textParts
             ELSE ScanStreams(buffer, it.idx, textParts \o it.parts)

MIN_RAW_RUN == 5
MAX_EXTRACTED_CHARS == 12000

\* RawScan with runs of four characters let through
RawScanShortRuns(raw) ==
    LET runs == SplitEach(raw, Range(raw) \ Printable)
        matches == SelectSeq(runs, LAMBDA m : Len(m) >= MIN_RAW_RUN - 1)
    IN  NonEmpty(Tuple([k \in 1..Len(matches) |->
                           Trim(ReplaceRuns(matches[k], Whitespace, FALSE))]))

\* raw.match(/[\x20-\x7E]{5,}/g) || [], each match cleaned
RawScan(raw) ==
    LET runs == SplitEach(raw, Range(raw) \ Printable)
        matches == SelectSeq(runs, LAMBDA m : Len(m) >= MIN_RAW_RUN)
    IN  NonEmpty(Tuple([k \in 1..Len(matches) |->
                           Trim(ReplaceRuns(matches[k], Whitespace, FALSE))]))

extractTextFromPdfBuffer(buffer) ==
    LET scanned == ScanStreams(buffer, 0, <<>>)
        textParts == IF Len(scanned) = 0 THEN RawScan(Latin1(buffer)) ELSE scanned
    IN  Substring(Join(textParts, <<" ">>), MAX_EXTRACTED_CHARS)

PDF_MAGIC == Chars("%PDF")

\* fileBuffer.slice(0, 4).toString('ascii') === PDF_MAGIC
IsPdf(buffer) == Substring(buffer, 4) = PDF_MAGIC

\* lines 115-126: the text a loaded file starts the pipeline with
ExtractFileText(buffer) ==
    IF IsPdf(buffer) THEN extractTextFromPdfBuffer(buffer) ELSE Utf8(buffer)

\* extractWithTextract, given response.Blocks
extractWithTextract(blocks) ==
    LET isLine == SelectSeq(blocks, LAMBDA b : b.BlockType = "LINE" /\ Len(b.Text) > 0)
        lines  == NonEmpty(Tuple([k \in 1..Len(isLine) |-> Trim(isLine[k].Text)]))
    IN  Join(lines, <<" ">>)

-----------------------------------------------------------------------------
(* The handler's constants and fixed strings *)

BEDROCK_MAX_CONTENT_CHARS == 6000
OPENAI_MAX_CONTENT_CHARS == 14000

MAX_CONTENT_CHARS(v) ==
    IF v = "bedrock" THEN BEDROCK_MAX_CONTENT_CHARS ELSE OPENAI_MAX_CONTENT_CHARS

TRUNCATION_MARKER == Chars("... (truncated)")

\* the post-sanitization gate: fewer tokens than this is unreadable
MIN_GATE_TOKENS == 10

\* the OCR trigger: a trimmed text shorter than this is sent to OCR
OCR_MIN_CHARS == 200

BEDROCK_MODEL == "amazon.titan-text-express-v1"
OPENAI_MODEL == "gpt-3.5-turbo"

UNREADABLE_SUMMARY ==
    Chars("Text not readable; PDF appears scanned or garbled. Please upload a clearer copy.")

NO_SUMMARY == Chars("Unable to generate summary")

TOO_SHORT_SUMMARY ==
    Chars("Unable to generate meaningful summary - document content is too short or unclear.")

UNEXPECTED_SUMMARY == Chars("Summary unavailable due to an unexpected error.")

-----------------------------------------------------------------------------
(* The extractive summaries *)

\* text.split(/[.!?]+/).filter(s => s.trim().length > minLen)
Sentences(text, minLen) ==
    SelectSeq(SplitRuns(text, SentenceEnd), LAMBDA x : Len(Trim(x)) > minLen)

\* Math.ceil(n / d)
CeilDiv(n, d) == (n + d - 1) \div d

TrimAll(parts) == Tuple([k \in 1..Len(parts) |-> Trim(parts[k])])

\* sentences.slice(0, k).join('. ').trim() + '.'
JoinFirst(sentences, k) ==
    Trim(Join(SubSeq(sentences, 1, Min(k, Len(sentences))), <<".", " ">>)) \o <<".">>

\* Bedrock inner catch, lines 248-249
BedrockSentenceCount(n) == Max(1, CeilDiv(n, 3))

BedrockFallbackSummary(text) ==
    LET sentences == Sentences(text, 10)
    IN  JoinFirst(sentences, BedrockSentenceCount(Len(sentences)))

\* OpenAI inner catch, lines 632-655
OpenAISentenceCount(n) == Min(Max(2, CeilDiv(n, 4)), 5)

OpenAIFallbackSummary(text) ==
    LET sentences == Sentences(text, 15)
    IN  IF Len(sentences) = 0 THEN TOO_SHORT_SUMMARY
        ELSE JoinFirst(TrimAll(sentences), OpenAISentenceCount(Len(sentences)))

\* Bedrock outer catch, lines 279-281
BedrockUnexpectedSummary(last) ==
    IF Len(last) > 0 THEN JoinFirst(Sentences(last, 10), 3) ELSE UNEXPECTED_SUMMARY

\* OpenAI outer catch, lines 683-692
OpenAIUnexpectedSummary(last) ==
    LET sentences == Sentences(last, 15)
    IN  IF Len(last) > 0 /\ Len(Trim(last)) > 50 /\ Len(sentences) > 0
        THEN JoinFirst(TrimAll(sentences), Min(Max(2, CeilDiv(Len(sentences), 4)), 4))
        ELSE UNEXPECTED_SUMMARY

-----------------------------------------------------------------------------
(* The handler.  Its locals are gathered in a record h while a step runs.   *)

Locals ==
    [pc |-> pc, fileBuffer |-> fileBuffer, hasBuffer |-> hasBuffer,
     textToSummarize |-> textToSummarize, lastText |-> lastText,
     calls |-> calls, metrics |-> metrics, genOutcome |-> genOutcome,
     stage |-> stage, sanitized |-> sanitized, resp |-> resp,
     ocrOutcome |-> ocrOutcome, sanitizerInput |-> sanitizerInput, timer |-> timer]

Become(h) ==
    /\ pc' = h.pc
    /\ fileBuffer' = h.fileBuffer
    /\ hasBuffer' = h.hasBuffer
    /\ textToSummarize' = h.textToSummarize
    /\ lastText' = h.lastText
    /\ calls' = h.calls
    /\ metrics' = h.metrics
    /\ genOutcome' = h.genOutcome
    /\ stage' = h.stage
    /\ sanitized' = h.sanitized
    /\ resp' = h.resp
    /\ ocrOutcome' = h.ocrOutcome
    /\ sanitizerInput' = h.sanitizerInput
    /\ timer' = h.timer

\* the body '' of the OPTIONS answer, which holds no JSON object
EmptyBody == [raw |-> ""]

NoResponse == [statusCode |-> 0, body |-> EmptyBody]
NoOutcome == [kind |-> "none", text |-> <<>>]
NoOcrOutcome == [kind |-> "none", blocks |-> <<>>]

\* return { statusCode, headers, body }, after the sendMetric calls sent
Return(h, status, body, sent) ==
    [h EXCEPT !.pc = "done",
              !.resp = [statusCode |-> status, body |-> body],
              !.metrics = @ \o sent]

\* const { ..., summaryType = 'brief' } = requestData
SummaryTypeOf(r) ==
    IF r.summaryType.kind = "undefined" THEN "brief" ELSE r.summaryType.value

\* an outer catch that answers 500 instead of a fallback summary
OuterCatchFails(v, h) ==
    Return(h, 500, [error |-> "Internal server error"], <<"Errors", "RequestDuration">>)

\* an outer catch that summarizes lastText without looking whether it is empty
OuterCatchUnguarded(v, h) ==
    Return(h, 200,
           [summary |-> JoinFirst(Sentences(h.lastText, 10), 3), source |-> "fallback"],
           <<"Errors", "RequestDuration">>)

\* the outer catch: lines 273-291 (Bedrock), 676-702 (OpenAI)
OuterCatch(v, h) ==
    IF v = "bedrock"
    THEN Return(h, 200,
                [summary |-> BedrockUnexpectedSummary(h.lastText),
                 source  |-> "fallback",
                 warning |-> "Unexpected error. AI summarization unavailable."],
                <<"Errors", "RequestDuration">>)
    ELSE Return(h, 200,
                [summary |-> OpenAIUnexpectedSummary(h.lastText),
                 source  |-> "fallback"],
                <<"Errors", "RequestDuration">>)

\* an inner catch that hands the error on to the outer catch
InnerCatchRethrows(v, r, h, errorName) ==
    Return(h, 500, [error |-> errorName], <<"Errors", "RequestDuration">>)

\* an inner catch that throws, so that the outer catch answers
InnerCatchThrows(v, r, h, errorName) == OuterCatch(v, h)

\* an inner catch that issues the generative-text call once more
InnerCatchRetries(v, r, h, errorName) ==
    [h EXCEPT !.pc = "gen", !.calls = Append(@, "gen"),
              !.timer = IF v = "bedrock" THEN "armed" ELSE @]

\* the inner catch: lines 244-271 (Bedrock), 628-674 (OpenAI)
InnerCatch(v, r, h, errorName) ==
    IF v = "bedrock"
    THEN Return(h, 200,
                [summary        |-> BedrockFallbackSummary(h.textToSummarize),
                 originalLength |-> Len(h.textToSummarize),
                 type           |-> r.type,
                 summaryType    |-> SummaryTypeOf(r),
                 source         |-> "fallback",
                 warning        |->
                     IF errorName \in {"ResourceNotFoundException", "AbortError"}
                     THEN "Bedrock model unavailable or not permitted; using fallback summarizer"
                     ELSE "AI summarization unavailable, using fallback summarizer"],
                <<"RequestDuration", "SummariesFallback">>)
    ELSE Return(h, 200,
                [summary        |-> OpenAIFallbackSummary(h.textToSummarize),
                 originalLength |-> Len(h.textToSummarize),
                 type           |-> r.type,
                 summaryType    |-> SummaryTypeOf(r),
                 source         |-> "fallback"],
                <<"RequestDuration", "SummariesFallback">>)

\* the success return: lines 224-242 (Bedrock), 605-623 (OpenAI)
AiSuccess(v, r, h, summary) ==
    Return(h, 200,
           [summary        |-> summary,
            originalLength |-> Len(h.textToSummarize),
            type           |-> r.type,
            summaryType    |-> SummaryTypeOf(r),
            model          |-> IF v = "bedrock" THEN BEDROCK_MODEL ELSE OPENAI_MODEL,
            source         |-> IF v = "bedrock" THEN "bedrock" ELSE "openai"],
           <<"RequestDuration", "SummariesGenerated", "ContentLength">>)

\* !textToSummarize || textToSummarize.trim().length === 0
IsBlank(text) == Len(text) = 0 \/ Len(Trim(text)) = 0

\* Unreadable without its token count
UnreadableScoreOnly(text) == ScoreBelow(text, 1, 10)

\* Unreadable counting characters where the source counts tokens
UnreadableByLength(text) == ScoreBelow(text, 1, 10) \/ Len(text) < MIN_GATE_TOKENS

\* postCleanQuality.score < 0.10 || textToSummarize.split(/\s+/).length < 10
Unreadable(text) ==
    ScoreBelow(text, 1, 10) \/ Len(SplitRuns(text, Whitespace)) < MIN_GATE_TOKENS

\* a truncation that appends no marker
TruncateSilently(v, text) == Substring(text, MAX_CONTENT_CHARS(v))

\* lines 179-181 (Bedrock), 590-592 (OpenAI)
Truncate(v, text) ==
    IF Len(text) > MAX_CONTENT_CHARS(v)
    THEN Substring(text, MAX_CONTENT_CHARS(v)) \o TRUNCATION_MARKER
    ELSE text

\* lines 160-217 (Bedrock), 571-602 (OpenAI): from sanitization to the
\* await of the generative-text call
FromSanitize(v, key, r, h, text) ==
    LET clean == sanitizeText(text)
        h1 == [h EXCEPT !.textToSummarize = clean, !.sanitized = clean,
                        !.sanitizerInput = text, !.stage = "Gating"]
        h2 == [h1 EXCEPT !.textToSummarize = Truncate(v, clean), !.lastText = clean,
                         !.stage = "Summarizing"]
    IN  IF IsBlank(clean)
        THEN Return(h1, 400,
                    [error |-> "Extracted text is not readable. Try converting the PDF to text or upload a clearer file."],
                    <<"Errors">>)
        ELSE IF Unreadable(clean)
        THEN Return(h1, 200,
                    [summary |-> UNREADABLE_SUMMARY,
                     source  |-> "fallback",
                     warning |-> "Unreadable text after extraction and cleaning"],
                    <<>>)
        ELSE IF v = "openai" /\ ~key
        THEN InnerCatch(v, r, [h2 EXCEPT !.genOutcome = [kind |-> "unconfigured", text |-> <<>>]],
                        "Error")
        ELSE [h2 EXCEPT !.pc = "gen", !.calls = Append(@, "gen"),
                        \* setTimeout(() => controller.abort(), BEDROCK_TIMEOUT_MS)
                        !.timer = IF v = "bedrock" THEN "armed" ELSE @]

\* an OCR trigger that looks at the score alone
NeedsOcrScoreOnly(text) == ScoreBelow(text, 1, 4)

\* quality.score < 0.25 || textToSummarize.trim().length < 200
NeedsOcr(text) == ScoreBelow(text, 1, 4) \/ Len(Trim(text)) < OCR_MIN_CHARS

\* a step that sends a note's text to OCR as well
FromLoadedOcrAnything(v, key, r, h, text) ==
    LET h1 == [h EXCEPT !.textToSummarize = text]
    IN  IF IsBlank(text)
        THEN Return(h1, 400,
                    [error |-> "Content is empty or invalid. PDF text extraction may have failed; try uploading a text file."],
                    <<"Errors">>)
        ELSE IF NeedsOcr(text)
        THEN [h1 EXCEPT !.pc = "ocr", !.calls = Append(@, "ocr")]
        ELSE FromSanitize(v, key, r, h1, text)

\* lines 138-158 (Bedrock), 549-569 (OpenAI): from the loaded text to the
\* await of the OCR call, or on to sanitization
FromLoaded(v, key, r, h, text) ==
    LET h1 == [h EXCEPT !.textToSummarize = text]
    IN  IF IsBlank(text)
        THEN Return(h1, 400,
                    [error |-> "Content is empty or invalid. PDF text extraction may have failed; try uploading a text file."],
                    <<"Errors">>)
        ELSE IF r.type = "file" /\ h.hasBuffer /\ NeedsOcr(text)
        THEN [h1 EXCEPT !.pc = "ocr", !.calls = Append(@, "ocr")]
        ELSE FromSanitize(v, key, r, h1, text)

\* `users/${userId}/`
OwnPrefix(r) == Chars("users/") \o r.userId \o Chars("/")

\* a handler that reads any key
AccessDeniedNever(v, r) == FALSE

\* line 516: !fileKey.startsWith(`users/${userId}/`), in the OpenAI variant only
AccessDenied(v, r) == v = "openai" /\ ~StartsWith(r.fileKey, OwnPrefix(r))

\* lines 62-136 (Bedrock), 460-547 (OpenAI): from the event to the await of
\* the storage read, or on to the loaded text of a note
FromEvent(v, key, r, h) ==
    IF v = "openai" /\ Len(r.userId) = 0
    THEN Return(h, 401, [error |-> "Unauthorized"], <<"Errors">>)
    ELSE IF r.method = "OPTIONS"
    THEN Return(h, 200, EmptyBody, <<>>)
    ELSE IF r.method # "POST"
    THEN Return(h, 405, [error |-> "Method " \o r.method \o " not allowed. Only POST is supported."],
                <<"Errors">>)
    ELSE IF r.body = "absent"
    THEN Return(h, 400, [error |-> "Request body is required"], <<"Errors">>)
    ELSE IF r.body = "malformed"
    THEN Return(h, 400, [error |-> "Invalid JSON in request body"], <<"Errors">>)
    ELSE IF r.body = "null"
    THEN OuterCatch(v, h)       \* destructuring null throws a TypeError
    ELSE IF r.summaryType.kind \notin {"undefined", "string"}
    THEN OuterCatch(v, h)       \* summaryType.toUpperCase is not a function
    ELSE IF Len(r.type) = 0 \/ (r.contentIsString /\ Len(r.content) = 0)
    THEN Return(h, 400, [error |-> "type and content are required fields"], <<"Errors">>)
    ELSE IF r.type = "note"
    THEN IF r.contentIsString
         THEN FromLoaded(v, key, r, [h EXCEPT !.stage = "Extracting"], r.content)
         ELSE OuterCatch(v, [h EXCEPT !.stage = "Extracting"])
                                \* textToSummarize.trim is not a function
    ELSE IF r.type = "file"
    THEN IF Len(r.fileKey) = 0
         THEN Return(h, 400, [error |-> "fileKey is required for file summarization"],
                     <<"Errors">>)
         ELSE IF AccessDenied(v, r)
         THEN Return(h, 403, [error |-> "Access denied for this file"], <<"Errors">>)
         ELSE [h EXCEPT !.pc = "storage", !.calls = Append(@, "storage"),
                        !.stage = "Extracting"]
    ELSE Return(h, 400, [error |-> "Invalid type. Must be \"note\" or \"file\""], <<"Errors">>)

\* lines 113-132 (Bedrock), 524-543 (OpenAI): the storage read comes back
FromStorage(v, key, r, h, outcome) ==
    IF outcome.kind = "error"
    THEN Return(h, 404, [error |-> "Failed to fetch file: " \o outcome.message], <<"Errors">>)
    ELSE FromLoaded(v, key, r,
                    [h EXCEPT !.fileBuffer = outcome.bytes, !.hasBuffer = TRUE],
                    ExtractFileText(outcome.bytes))

\* an OCR step that never adopts the OCR text
FromOcrKeepsNative(v, key, r, h, outcome) ==
    FromSanitize(v, key, r, [h EXCEPT !.ocrOutcome = outcome], h.textToSummarize)

\* an OCR step that adopts the OCR text even when it is blank
FromOcrAlwaysAdopts(v, key, r, h, outcome) ==
    FromSanitize(v, key, r, [h EXCEPT !.ocrOutcome = outcome],
                 IF outcome.kind = "error" THEN <<>>
                 ELSE extractWithTextract(outcome.blocks))

\* lines 149-156 (Bedrock), 560-567 (OpenAI): the OCR call comes back
FromOcr(v, key, r, h, outcome) ==
    LET ocrText == IF outcome.kind = "error" THEN <<>>
                   ELSE extractWithTextract(outcome.blocks)
    IN  FromSanitize(v, key, r, [h EXCEPT !.ocrOutcome = outcome],
                     IF Len(ocrText) > 0 /\ Len(Trim(ocrText)) > 0
                     THEN ocrText
                     ELSE h.textToSummarize)

\* lines 217-271: bedrockClient.send comes back
FromBedrock(r, h, outcome) ==
    LET h1 == [h EXCEPT !.genOutcome = outcome]
    IN  IF outcome.kind = "text"
        THEN AiSuccess("bedrock", r, [h1 EXCEPT !.timer = "cleared"],
                       IF Len(outcome.text) > 0 THEN outcome.text ELSE NO_SUMMARY)
        ELSE InnerCatch("bedrock", r, h1,
                        CASE outcome.kind = "unavailable" -> "ResourceNotFoundException"
                          [] outcome.kind = "timeout"     -> "AbortError"
                          [] outcome.kind = "malformed"   -> "SyntaxError"
                          [] OTHER                        -> "Error")

\* callOpenAI's promise: lines 862-891, the summary or null (<<>>)
callOpenAI(outcome) ==
    IF outcome.kind = "text" THEN Trim(outcome.text) ELSE <<>>

\* lines 602-674: callOpenAI comes back
FromOpenAI(r, h, outcome) ==
    LET h1 == [h EXCEPT !.genOutcome = outcome]
        openaiSummary == callOpenAI(outcome)
    IN  IF Len(openaiSummary) > 0
        THEN AiSuccess("openai", r, h1, openaiSummary)
        ELSE InnerCatch("openai", r, h1, "Error")

-----------------------------------------------------------------------------
(* The requests, stored files and service answers the model draws from *)

\* a unit is repeated up to MaxReps times to make a short text
MaxReps == 8

\* and LongReps times to make a text beyond the Bedrock content budget
LongReps == 230

RECURSIVE Rep(_, _)
Rep(u, k) ==
    IF k <= 0 THEN <<>>
    ELSE IF k = 1 THEN u
    ELSE Rep(u, k \div 2) \o Rep(u, k - k \div 2)

PROSE == Chars("Costs fell in every region. ")
TERSE == Chars("Go home! ")
DIGITS == Chars("12345 ")
NOISE == Chars("b1234 ")

SCENARIO_NOTE == Chars("Buy milk. Call Alice. Finish report.")

\* ten tokens that score below 0.10 after sanitization
GARBLED ==
    Rep(NOISE, 9) \o Chars("a12345678901234567890123456789012345678901234567890123456789")

LongText == Rep(PROSE, LongReps)

ShortTexts == {Rep(u, k) : u \in {PROSE, TERSE, DIGITS, NOISE}, k \in 0..MaxReps}

\* eighteen sentences, well within every content budget
MANY_SENTENCES == Rep(PROSE, 18)

\* the repetitions that carry a note past the content budget of the OpenAI
\* variant
HugeReps == 520

HugeText == Rep(PROSE, HugeReps)

\* a note that quotes the truncation marker
MARKED_NOTE ==
    Chars("The log of the earlier run ends here... (truncated) as it was. ") \o Rep(PROSE, 3)

Texts ==
    ShortTexts \cup {Chars(" \n"), SCENARIO_NOTE, GARBLED, LongText, MANY_SENTENCES, HugeText,
                     MARKED_NOTE}

USER == Chars("u1")
OWN_KEY == Chars("users/u1/report.pdf")
FOREIGN_KEY == Chars("users/u2/report.pdf")

SummaryTypes ==
    {[kind |-> "undefined", value |-> ""],
     [kind |-> "string", value |-> "bullet"],
     [kind |-> "string", value |-> "haiku"],
     [kind |-> "number", value |-> ""]}

BaseRequest ==
    [method |-> "POST", userId |-> USER, body |-> "object", type |-> "note",
     content |-> Rep(PROSE, 2), contentIsString |-> TRUE, fileKey |-> <<>>,
     summaryType |-> [kind |-> "string", value |-> "bullet"]]

NoteRequests ==
    {[BaseRequest EXCEPT !.content = c, !.summaryType = st] :
        c \in Texts, st \in SummaryTypes}
    \cup {[BaseRequest EXCEPT !.contentIsString = FALSE]}

FileRequests ==
    {[BaseRequest EXCEPT !.type = "file", !.content = c, !.fileKey = k, !.summaryType = st] :
        c \in {<<>>, Chars("report.pdf")},
        k \in {<<>>, OWN_KEY, FOREIGN_KEY},
        st \in {[kind |-> "undefined", value |-> ""], [kind |-> "number", value |-> ""]}}

OtherRequests ==
    {[BaseRequest EXCEPT !.method = m, !.userId = u, !.body = b, !.type = t] :
        m \in {"POST", "OPTIONS", "GET"},
        u \in {<<>>, USER},
        b \in {"absent", "malformed", "null", "object"},
        t \in {"", "note", "image"}}

Requests == NoteRequests \cup FileRequests \cup OtherRequests

PDF_NO_TEXT == Chars("%PDF\n") \o <<HIGH, HIGH>> \o Chars("1.4\n") \o <<HIGH>>

PDF_LITERAL ==
    Chars("%PDF-1.4\n1 0 obj\nstream\nBT (Costs fell in) Tj (every\\nregion.) Tj ET\nendstream\nendobj\n")

PDF_FLATE ==
    Chars("%PDF-1.4\n1 0 obj\nstream\n")
    \o Deflate(Rep(Chars("(Costs fell in every region.) Tj "), MaxReps))
    \o Chars("\nendstream\nendobj\n")

PDF_SCANNED ==
    Chars("%PDF-1.4\n") \o <<HIGH, HIGH>> \o Chars(" JFIF image ") \o <<HIGH>>

\* a PDF whose content stream yields digits only
PDF_DIGITS ==
    Chars("%PDF-1.4\n1 0 obj\nstream\nBT (12345) Tj (67890 24680) Tj ET\nendstream\nendobj\n")

\* 240 characters without a letter
LONG_DIGITS == Rep(DIGITS, 40)

\* 206 characters of prose, 195 of them before the trailing blanks
PADDED_PROSE == Rep(PROSE, 7) \o Chars("          ")

StoredFiles ==
    {Rep(PROSE, 1), Rep(PROSE, 2), Rep(PROSE, MaxReps), Rep(DIGITS, 2), Rep(TERSE, MaxReps),
     Chars(" \n"), <<HIGH, HIGH, HIGH>>, LongText, LONG_DIGITS, PADDED_PROSE,
     PDF_NO_TEXT, PDF_LITERAL, PDF_FLATE, PDF_SCANNED, PDF_DIGITS}

StorageOutcomes ==
    {[kind |-> "error", bytes |-> <<>>, message |-> "NoSuchKey"]}
    \cup {[kind |-> "bytes", bytes |-> b, message |-> ""] : b \in StoredFiles}

Block(t, text) == [BlockType |-> t, Text |-> text]

OcrOutcomes ==
    {[kind |-> "error", blocks |-> <<>>],
     [kind |-> "blocks", blocks |-> <<>>],
     [kind |-> "blocks", blocks |-> <<Block("PAGE", <<>>), Block("LINE", Chars("  "))>>],
     [kind |-> "blocks", blocks |-> <<Block("LINE", Chars("0000 1111 rt 2222"))>>],
     [kind |-> "blocks",
      blocks |-> <<Block("PAGE", <<>>),
                   Block("LINE", Chars(" Hiring resumes next month in all of the regions. ")),
                   Block("WORD", Chars("Hiring")),
                   Block("LINE", Chars("The board approved the plan for the coming year."))>>]}

GenTexts == {<<>>, Chars(" "), Chars(" Costs fell everywhere. ")}

BedrockOutcomes ==
    {[kind |-> "text", text |-> t] : t \in GenTexts}
    \cup {[kind |-> k, text |-> <<>>] : k \in {"malformed", "error", "unavailable"}}

\* the AbortError of the aborted call (lines 195-197)
BedrockAborted == [kind |-> "timeout", text |-> <<>>]

OpenAIOutcomes ==
    {[kind |-> "text", text |-> t] : t \in GenTexts}
    \cup {[kind |-> k, text |-> <<>>] : k \in {"malformed", "error", "status"}}

-----------------------------------------------------------------------------
(* The state machine *)

\* no helper function is called on its own while a request is handled
NoProbe ==
    [kind |-> "none", t |-> <<>>, p |-> <<>>, q |-> <<>>,
     parts |-> <<>>, runs |-> <<>>, cleanRuns |-> <<>>, iter |-> <<>>]
NoResult == [fn |-> "none"]

\* the handler's module state and locals before an event arrives
Idle ==
    /\ variant \in {"bedrock", "openai"}
    /\ apiKey \in IF variant = "openai" THEN BOOLEAN ELSE {FALSE}
    /\ pc = "idle"
    /\ req = BaseRequest
    /\ fileBuffer = <<>>
    /\ hasBuffer = FALSE
    /\ textToSummarize = <<>>
    /\ lastText = <<>>
    /\ calls = <<>>
    /\ metrics = <<>>
    /\ genOutcome = NoOutcome
    /\ stage = "Preparing"
    /\ sanitized = <<>>
    /\ resp = NoResponse
    /\ ocrOutcome = NoOcrOutcome
    /\ sanitizerInput = <<>>
    /\ timer = "unset"
    /\ returned = NoResult

Init == Idle /\ probe = NoProbe

\* the handler is invoked with an event and runs to its first await or return
Receive ==
    /\ pc = "idle"
    /\ \E r \in Requests :
          /\ req' = r
          /\ Become(FromEvent(variant, apiKey, r, Locals))
    /\ UNCHANGED <<variant, apiKey, probe, returned>>

\* s3Client.send and streamToBuffer settle
StorageReturns ==
    /\ pc = "storage"
    /\ \E o \in StorageOutcomes : Become(FromStorage(variant, apiKey, req, Locals, o))
    /\ UNCHANGED <<variant, apiKey, req, probe, returned>>

\* textractClient.send settles
OcrReturns ==
    /\ pc = "ocr"
    /\ \E o \in OcrOutcomes : Become(FromOcr(variant, apiKey, req, Locals, o))
    /\ UNCHANGED <<variant, apiKey, req, probe, returned>>

\* bedrockClient.send settles with an answer or an error of the service
BedrockReturns ==
    /\ pc = "gen"
    /\ variant = "bedrock"
    /\ timer = "armed"
    /\ \E o \in BedrockOutcomes : Become(FromBedrock(req, Locals, o))
    /\ UNCHANGED <<variant, apiKey, req, probe, returned>>

\* the timer of line 197 fires while bedrockClient.send is pending and
\* calls controller.abort()
TimerFires ==
    /\ pc = "gen"
    /\ timer = "armed"
    /\ timer' = "fired"
    /\ UNCHANGED <<variant, apiKey, pc, req, fileBuffer, hasBuffer, textToSummarize,
                   lastText, calls, metrics, genOutcome, stage, sanitized, resp,
                   ocrOutcome, sanitizerInput, probe, returned>>

\* the aborted bedrockClient.send rejects with an AbortError
BedrockAborts ==
    /\ pc = "gen"
    /\ variant = "bedrock"
    /\ timer = "fired"
    /\ Become(FromBedrock(req, Locals, BedrockAborted))
    /\ UNCHANGED <<variant, apiKey, req, probe, returned>>

\* the promise of callOpenAI resolves: the response ended or the request
\* emitted an error (lines 862-891); nothing else resolves it
OpenAIReturns ==
    /\ pc = "gen"
    /\ variant = "openai"
    /\ \E o \in OpenAIOutcomes : Become(FromOpenAI(req, Locals, o))
    /\ UNCHANGED <<variant, apiKey, req, probe, returned>>

Next ==
    \/ Receive
    \/ StorageReturns
    \/ OcrReturns
    \/ BedrockReturns
    \/ TimerFires
    \/ BedrockAborts
    \/ OpenAIReturns

Spec == Init /\ [][Next]_vars

\* The services answer when they please or never.  The one step that is
\* bound to happen is the timer of line 197: the event loop runs its callback
\* BEDROCK_TIMEOUT_MS after setTimeout, unless the call has settled before.
LiveSpec == Init /\ [][Next]_vars /\ WF_vars(TimerFires)

-----------------------------------------------------------------------------
(* The helper functions called on their own: an argument is drawn, the      *)
(* function is applied to it, and what it returned is kept.                  *)

\* the longest short argument
MaxProbeLen == 3

\* a vowel, a consonant, a digit, a blank and a character outside ASCII
ProbeChars == {"a", "b", "1", " ", NBSP}

ShortProbes == UNION {{Tuple(f) : f \in [1..k -> ProbeChars]} : k \in 0..MaxProbeLen}

\* texts of more than WORD_SATURATION words
LongProbes == {Rep(Chars("a "), 200), Rep(Chars("1 "), 100), Rep(Chars("bab "), 90)}

\* whitespace put before and after an argument
Pads == {<<>>, <<" ">>, <<"\n", " ">>}

\* tokens at the limits of the filter of sanitizeText
TokenProbes ==
    {Chars("bcdfgh ok"), Chars("bcdfg ok"), Chars("ok bcdfgha"),
     Rep(<<"a">>, MAX_TOKEN_CHARS) \o Chars(" ok"),
     Rep(<<"a">>, MAX_TOKEN_CHARS + 1) \o Chars(" ok")}

\* the repetitions that carry a text past MAX_SANITIZED_CHARS
CapReps == 1720

\* texts whose filtered result is longer than MAX_SANITIZED_CHARS: the cut
\* falls after "ab", after "12", after a blank and after "bcdfgh"
CapProbes ==
    {Rep(Chars("abcdef "), CapReps), Rep(Chars("12345a "), CapReps),
     Rep(Chars("bcdfgha "), CapReps),
     Chars("x ") \o Rep(Chars("bcdfgha "), CapReps)}

\* an argument text t with its padding p and q
TextProbe(t, p, q) == [NoProbe EXCEPT !.kind = "text", !.t = t, !.p = p, !.q = q]

TextProbes ==
    {TextProbe(t, p, q) : t \in ShortProbes, p \in Pads, q \in Pads}
    \cup {TextProbe(t, <<>>, <<>>) : t \in LongProbes \cup TokenProbes \cup CapProbes}

\* the bytes of a stream object around its content
Obj(content) ==
    Chars("1 0 obj\n<< >>\nstream\n") \o content \o Chars("\nendstream\nendobj\n")

PDF_HEADER == Chars("%PDF-1.4\n")

\* a PDF written from known text: t are its bytes, parts the cleaned literal
\* strings of its streams in file order, runs its runs of five or more
\* printable bytes as they stand in the file, cleanRuns those runs with
\* whitespace collapsed and trimmed, the blank ones left out
PdfProbe(t, parts, runs, cleanRuns) ==
    [NoProbe EXCEPT !.kind = "pdf", !.t = t, !.parts = parts, !.runs = runs,
                    !.cleanRuns = cleanRuns]

\* the streams, of LiteralsPerStream literals each, that carry an extraction
\* past MAX_EXTRACTED_CHARS
CapStreams == 15
LiteralsPerStream == 30
CapParts == CapStreams * LiteralsPerStream

SENTENCE == Chars("Costs fell in every region.")

\* a page that shows LiteralsPerStream sentences with one operator
PAGE == Chars("BT [") \o Rep(Chars("(") \o SENTENCE \o Chars(")"), LiteralsPerStream)
        \o Chars("] TJ ET")

Copies(x, n) == Tuple([k \in 1..n |-> x])

\* the runs every file written with PDF_HEADER and Obj has around its content
ObjRuns(content) ==
    <<Chars("%PDF-1.4"), Chars("1 0 obj"), Chars("<< >>"), Chars("stream"), content,
      Chars("endstream"), Chars("endobj")>>

PdfProbes ==
    {\* one stream, two literals, an escaped line break
     PdfProbe(PDF_HEADER \o Obj(Chars("BT (Costs fell in) Tj (every\\nregion.) Tj ET")),
              <<Chars("Costs fell in"), Chars("every region.")>>, <<>>, <<>>),
     \* two streams, the second deflated, with a blank literal and an escaped
     \* parenthesis
     PdfProbe(PDF_HEADER \o Obj(Chars("BT (First page) Tj ET"))
                  \o Obj(Deflate(Chars("BT (Second   page) Tj ( ) Tj (of two\\)) Tj ET"))),
              <<Chars("First page"), Chars("Second page"), Chars("of two\\)")>>,
              <<>>, <<>>),
     \* more literal text than MAX_EXTRACTED_CHARS
     PdfProbe(PDF_HEADER \o Rep(Obj(PAGE), CapStreams),
              Copies(SENTENCE, CapParts), <<>>, <<>>),
     \* no stream: an image with text runs between high bytes
     PdfProbe(PDF_HEADER \o <<HIGH, HIGH>> \o Chars(" JFIF  image ") \o <<HIGH>>
                  \o Chars("abcd") \o <<HIGH>> \o Chars("     ") \o <<HIGH>>
                  \o Chars("Hello  world"),
              <<>>,
              <<Chars("%PDF-1.4"), Chars(" JFIF  image "), Chars("     "),
                Chars("Hello  world")>>,
              <<Chars("%PDF-1.4"), Chars("JFIF image"), Chars("Hello world")>>),
     \* a stream that shows a hex string: no literal
     PdfProbe(PDF_HEADER \o Obj(Chars("BT <48656C6C6F> Tj ET")),
              <<>>,
              ObjRuns(Chars("BT <48656C6C6F> Tj ET")),
              ObjRuns(Chars("BT <48656C6C6F> Tj ET"))),
     \* a stream whose only literal is blank
     PdfProbe(PDF_HEADER \o Obj(Chars("BT ( ) Tj ET")),
              <<>>,
              ObjRuns(Chars("BT ( ) Tj ET")),
              ObjRuns(Chars("BT ( ) Tj ET"))),
     \* no stream, more lines than MAX_EXTRACTED_CHARS holds
     PdfProbe(PDF_HEADER \o Rep(SENTENCE \o <<"\n">>, CapParts),
              <<>>,
              <<Chars("%PDF-1.4")>> \o Copies(SENTENCE, CapParts),
              <<Chars("%PDF-1.4")>> \o Copies(SENTENCE, CapParts))}

\* the pieces the scanned buffers are put together from
ScanTokens == {STREAM, <<"\n">>, ENDSTREAM, Chars("(a b)"), <<HIGH>>}

\* the most pieces in a scanned buffer
MaxScanTokens == 4

RECURSIVE Flatten(_)
Flatten(ss) == IF Len(ss) = 0 THEN <<>> ELSE ss[1] \o Flatten(SubSeq(ss, 2, Len(ss)))

\* buffers in every arrangement of the pieces, behind the magic number
ScanProbes ==
    {[NoProbe EXCEPT !.kind = "scan", !.t = PDF_MAGIC \o Flatten(f)] :
        f \in UNION {[1..n -> ScanTokens] : n \in 0..MaxScanTokens}}

Probes == TextProbes \cup PdfProbes \cup ScanProbes

FnInit == Idle /\ variant = "bedrock" /\ probe \in Probes

\* scoreTextQuality is applied to the argument and to the padded argument
ScoreProbe ==
    /\ returned.fn = "none"
    /\ probe.kind = "text"
    /\ returned' = [fn     |-> "scoreTextQuality",
                    plain  |-> scoreTextQuality(probe.t),
                    padded |-> scoreTextQuality(probe.p \o probe.t \o probe.q)]
    /\ UNCHANGED <<variant, apiKey, pc, req, fileBuffer, hasBuffer, textToSummarize,
                   lastText, calls, metrics, genOutcome, stage, sanitized, resp,
                   ocrOutcome, sanitizerInput, timer, probe>>

\* sanitizeText is applied to the padded argument, and to its own result
SanitizeProbe ==
    /\ returned.fn = "none"
    /\ probe.kind = "text"
    /\ LET arg  == probe.p \o probe.t \o probe.q
           once == sanitizeText(arg)
       IN  returned' = [fn    |-> "sanitizeText",
                        arg   |-> arg,
                        once  |-> once,
                        twice |-> sanitizeText(once)]
    /\ UNCHANGED <<variant, apiKey, pc, req, fileBuffer, hasBuffer, textToSummarize,
                   lastText, calls, metrics, genOutcome, stage, sanitized, resp,
                   ocrOutcome, sanitizerInput, timer, probe>>

\* extractTextFromPdfBuffer is entered with the buffer (lines 303-306)
ExtractBegin ==
    /\ returned.fn = "none"
    /\ probe.kind \in {"pdf", "scan"}
    /\ returned' = [fn |-> "extractTextFromPdfBuffer", at |-> "loop", idx |-> 0,
                    textParts |-> <<>>, scanned |-> <<>>, usedRaw |-> FALSE,
                    text |-> <<>>]
    /\ UNCHANGED <<variant, apiKey, pc, req, fileBuffer, hasBuffer, textToSummarize,
                   lastText, calls, metrics, genOutcome, stage, sanitized, resp,
                   ocrOutcome, sanitizerInput, timer, probe>>

InScanLoop == returned.fn = "extractTextFromPdfBuffer" /\ returned.at = "loop"

\* the iteration entered with idx, read from the probe's table when it has one
IterationAt(idx) ==
    IF Len(probe.iter) > 0 THEN probe.iter[idx + 1] ELSE ScanIteration(probe.t, idx)

\* the loop is left: its condition fails or an iteration breaks
ScanLeaves ==
    IF returned.idx < Len(Latin1(probe.t)) THEN IterationAt(returned.idx).break ELSE TRUE

\* one iteration of the while loop that reaches line 337
ScanLoop ==
    /\ InScanLoop
    /\ ~ScanLeaves
    /\ LET it == IterationAt(returned.idx)
       IN  returned' = [returned EXCEPT !.idx = it.idx,
                                        !.textParts = @ \o it.parts]
    /\ UNCHANGED <<variant, apiKey, pc, req, fileBuffer, hasBuffer, textToSummarize,
                   lastText, calls, metrics, genOutcome, stage, sanitized, resp,
                   ocrOutcome, sanitizerInput, timer, probe>>

\* the loop is left (lines 307, 309, 311, 313)
ScanBreak ==
    /\ InScanLoop
    /\ ScanLeaves
    /\ returned' = [returned EXCEPT !.at = "after", !.scanned = returned.textParts]
    /\ UNCHANGED <<variant, apiKey, pc, req, fileBuffer, hasBuffer, textToSummarize,
                   lastText, calls, metrics, genOutcome, stage, sanitized, resp,
                   ocrOutcome, sanitizerInput, timer, probe>>

\* lines 340-351: after the loop, the raw scan if nothing was collected, and
\* the combined text
ScanCombine ==
    /\ returned.fn = "extractTextFromPdfBuffer"
    /\ returned.at = "after"
    /\ LET usedRaw   == Len(returned.textParts) = 0
           textParts == IF usedRaw THEN RawScan(Latin1(probe.t)) ELSE returned.textParts
       IN  returned' = [returned EXCEPT
                           !.at = "returned", !.usedRaw = usedRaw,
                           !.textParts = textParts,
                           !.text = Substring(Join(textParts, <<" ">>),
                                              MAX_EXTRACTED_CHARS)]
    /\ UNCHANGED <<variant, apiKey, pc, req, fileBuffer, hasBuffer, textToSummarize,
                   lastText, calls, metrics, genOutcome, stage, sanitized, resp,
                   ocrOutcome, sanitizerInput, timer, probe>>

FnNext ==
    ScoreProbe \/ SanitizeProbe \/ ExtractBegin \/ ScanLoop \/ ScanBreak \/ ScanCombine

FnSpec == FnInit /\ [][FnNext]_vars

\* ScanIteration tabulated: the entry at idx + 1 is the iteration entered
\* with idx
IterationTable(t) == Tuple([i \in 1..Len(t) |-> ScanIteration(t, i - 1)])

\* the buffers the loop is followed to its end on, each with its table: every
\* arrangement of up to three of the pieces, two buffers of two streams, and
\* the short PDFs
LoopProbes ==
    {[pr EXCEPT !.iter = IterationTable(pr.t)] :
        pr \in {[NoProbe EXCEPT !.kind = "scan", !.t = PDF_MAGIC \o Flatten(f)] :
                   f \in UNION {[1..n -> ScanTokens \ {<<HIGH>>}] : n \in 0..3}}
               \cup {[NoProbe EXCEPT !.kind = "scan", !.t = PDF_MAGIC \o b] :
                       b \in {Chars("stream\n(a b)endstream stream\nendstream"),
                              Chars("stream\nendstreamstream\n(a)endstream\n")}}
               \cup {x \in PdfProbes : Len(x.t) < 1000}}

\* extractTextFromPdfBuffer alone
ScanInit ==
    /\ Idle
    /\ variant = "bedrock"
    /\ probe \in LoopProbes

ScanNext == ExtractBegin \/ ScanLoop \/ ScanBreak \/ ScanCombine

\* A call that has been entered runs on: the loop of extractTextFromPdfBuffer
\* is synchronous code, so an iteration that can be taken is taken, and so is
\* the exit from the loop.
ScanLiveSpec == ScanInit /\ [][ScanNext]_vars /\ WF_vars(ScanLoop) /\ WF_vars(ScanBreak)

-----------------------------------------------------------------------------
(* Vocabulary of the properties *)

Done == pc = "done"

HasField(f) == f \in DOMAIN resp.body

Called(service) == \E i \in 1..Len(calls) : calls[i] = service

\* the generative-text call timed out, failed or was unavailable
GenFailed ==
    genOutcome.kind \in {"timeout", "error", "unavailable", "malformed", "status",
                         "unconfigured"}

\* the sanitizer has run on this request
Sanitized == stage \in {"Gating", "Summarizing"}

\* a file's bytes were loaded, or a note's content was accepted
ContentLoaded == hasBuffer \/ (req.type = "note" /\ stage # "Preparing")

\* fewer than ten whitespace-delimited tokens, or a score below 0.10
LowQuality(text) ==
    ScoreBelow(text, 1, 10) \/ Len(SplitRuns(text, Whitespace)) < 10

\* the answer of the quality gate
UnreadableAnswer ==
    /\ Done
    /\ resp.statusCode = 200
    /\ HasField("source") /\ resp.body.source = "fallback"
    /\ HasField("summary") /\ Includes(resp.body.summary, Chars("Text not readable"))
    /\ ~Called("gen")

\* a fallback answer with a summary that is not empty
FallbackAnswer ==
    /\ Done
    /\ resp.statusCode = 200
    /\ HasField("source") /\ resp.body.source = "fallback"
    /\ HasField("summary") /\ Len(resp.body.summary) > 0

\* the trimmed pieces between sentence ends, the empty ones left out
Fragments(text) ==
    LET pieces == NonEmpty(TrimAll(SplitRuns(text, SentenceEnd)))
    IN  {pieces[k] : k \in 1..Len(pieces)}

\* summary is made of sentences of text, and of at least one
ExtractedFrom(summary, text) ==
    /\ Fragments(summary) # {}
    /\ Fragments(summary) \subseteq Fragments(text)

-----------------------------------------------------------------------------
(* C1 *)

-----------------------------------------------------------------------------
(* C2 *)

-----------------------------------------------------------------------------
(* C3 *)

\* the extractive summary of the variant's inner catch, taken of text
FallbackSummaryOf(v, text) ==
    IF v = "bedrock" THEN BedrockFallbackSummary(text) ELSE OpenAIFallbackSummary(text)

\* C3: for a sanitized text longer than the content budget, the fallback
\* summary of the inner catch equals the sentence extraction of the sanitized
\* text as it was before truncation.
C3_FallbackFromUntruncated ==
    (Done /\ GenFailed /\ Len(sanitized) > MAX_CONTENT_CHARS(variant)) =>
        (HasField("summary") /\ resp.body.summary = FallbackSummaryOf(variant, sanitized))

-----------------------------------------------------------------------------
(* C4 *)

\* the request of the scenario, handled while the generative-text service is
\* unavailable
C4_Scenario ==
    /\ pc # "idle"
    /\ req.method = "POST" /\ req.body = "object"
    /\ req.type = "note" /\ req.contentIsString /\ req.content = SCENARIO_NOTE
    /\ req.summaryType = [kind |-> "string", value |-> "bullet"]
    /\ (variant = "openai" => ~apiKey)
    /\ (genOutcome.kind \in {"none", "unavailable", "unconfigured"})

\* C4 as stated: the answer has source "fallback" and its summary is the join
\* of the three sentences of the content.
C4_ScenarioJoinsThreeSentences ==
    C4_Scenario =>
        /\ Done
        /\ HasField("source") /\ resp.body.source = "fallback"
        /\ HasField("summary")
        /\ resp.body.summary = Chars("Buy milk. Call Alice. Finish report.")

\* C4 amended: the content has six tokens, so the quality gate answers: status
\* 200, source "fallback", the "Text not readable" summary, and the
\* generative-text service is not called.
C4_ScenarioIsUnreadable ==
    C4_Scenario =>
        /\ UnreadableAnswer
        /\ resp.body.summary = UNREADABLE_SUMMARY
        /\ sanitized = SCENARIO_NOTE
        /\ Len(SplitRuns(sanitized, Whitespace)) = 6

\* the scenario answered, in the Bedrock variant
C4_Witness == C4_Scenario /\ Done /\ variant = "bedrock" /\ resp.statusCode = 200

-----------------------------------------------------------------------------
(* C5 *)

\* C5 as stated: once content is loaded, every response has status 200.
C5_LoadedMeans200 == (Done /\ ContentLoaded) => resp.statusCode = 200

\* C5 amended: once content is loaded, every response has status 200, but for
\* a text that is empty or all whitespace as loaded or after sanitization,
\* which is answered with status 400; no other status is returned.
C5_LoadedMeans200OrBlank ==
    (Done /\ ContentLoaded) =>
        \/ resp.statusCode = 200
        \/ /\ resp.statusCode = 400
           /\ IsBlank(textToSummarize)
           /\ ~Called("gen")

\* a loaded file answered with status 200 although its generative-text call failed
C5_Witness == Done /\ hasBuffer /\ GenFailed /\ resp.statusCode = 200

-----------------------------------------------------------------------------
(* C6 *)

\* no five consecutive printable ASCII bytes
NoPrintableRun(buffer) ==
    \A i \in 1..(Len(buffer) - 4) : \E j \in i..(i + 4) : buffer[j] \notin Printable

\* the stored bytes begin with %PDF and hold no stream token and no printable run
PdfWithoutText ==
    /\ hasBuffer
    /\ Substring(fileBuffer, 4) = Chars("%PDF")
    /\ ~Includes(fileBuffer, Chars("stream"))
    /\ NoPrintableRun(fileBuffer)

\* C6: for such a file, extraction returns the empty text, the answer is the
\* status-400 error for empty content, and OCR is never called.
C6_PdfWithoutTextIsRejected ==
    PdfWithoutText =>
        /\ Done
        /\ textToSummarize = <<>>
        /\ resp.statusCode = 400
        /\ HasField("error")
        /\ resp.body.error = "Content is empty or invalid. PDF text extraction may have failed; try uploading a text file."
        /\ ~Called("ocr")
        /\ ~Called("gen")

C6_Witness == PdfWithoutText /\ Done /\ calls = <<"storage">>

-----------------------------------------------------------------------------
(* C7 *)

\* a field of the request is missing or invalid
InvalidRequest ==
    /\ req.method = "POST" /\ req.body = "object"
    /\ \/ req.type \notin {"note", "file"}
       \/ req.contentIsString /\ Len(req.content) = 0
       \/ req.type = "file" /\ Len(req.fileKey) = 0
       \/ req.summaryType.kind \notin {"undefined", "string"}

\* C7: a request with a missing or invalid field is answered with an error
\* status, and no storage, OCR or generative-text call is made for it.
C7_InvalidRequestIsAnError ==
    (Done /\ InvalidRequest) => (resp.statusCode >= 400 /\ calls = <<>>)

-----------------------------------------------------------------------------
(* C8 *)

\* the source label of a summary the generative-text service produced
AiLabel == IF variant = "bedrock" THEN "bedrock" ELSE "openai"

\* the summary of the response is text the generative-text service returned
SummaryIsGenerated ==
    /\ genOutcome.kind = "text"
    /\ Len(genOutcome.text) > 0
    /\ resp.body.summary \in {genOutcome.text, Trim(genOutcome.text)}

\* C8: every summary response is tagged "ai" (here: the provider's label) or
\* "fallback"; a generated summary carries the former and the model
\* identifier, every other summary carries "fallback".
C8_SourceTellsOrigin ==
    (Done /\ resp.statusCode = 200 /\ HasField("summary")) =>
        /\ HasField("source")
        /\ resp.body.source \in {AiLabel, "fallback"}
        /\ SummaryIsGenerated => (resp.body.source = AiLabel /\ HasField("model"))
        /\ ~SummaryIsGenerated => resp.body.source = "fallback"

-----------------------------------------------------------------------------
(* C9 *)

RequiredFields == {"summary", "source", "originalLength", "type", "summaryType"}

\* C9: every status-200 response to a POST request carries summary, source,
\* originalLength, type and summaryType.
C9_AllFieldsPresent ==
    (Done /\ req.method = "POST" /\ resp.statusCode = 200) =>
        RequiredFields \subseteq DOMAIN resp.body

-----------------------------------------------------------------------------
(* C10 *)

\* C10: the call ends in an AI-sourced result only when the service returned
\* a non-empty text; an empty or missing text leads to a "fallback" summary.
C10_EmptyTextFallsBack ==
    (Done /\ stage = "Summarizing" /\ genOutcome.kind # "none") =>
        /\ HasField("source")
        /\ resp.body.source = AiLabel =>
               (genOutcome.kind = "text" /\ Len(genOutcome.text) > 0)
        /\ (genOutcome.kind = "text" /\ Len(genOutcome.text) = 0) =>
               resp.body.source = "fallback"

-----------------------------------------------------------------------------
(* C11 *)

\* C11: in every variant the generative-text call is bounded by a timeout:
\* a request that waits for the service does not wait forever, the call
\* settles or its timer fires and aborts it.
C11_GenCallIsBounded == (pc = "gen") ~> (Done \/ timer = "fired")

\* C11, the rest of it: an aborted call is answered with a fallback response.
C11_AbortedCallFallsBack ==
    (Done /\ timer = "fired") => (FallbackAnswer /\ genOutcome = BedrockAborted)

-----------------------------------------------------------------------------
(* C12 *)

\* the outer catch has answered: it alone sends Errors and RequestDuration
OuterCatchRan == Done /\ metrics = <<"Errors", "RequestDuration">>

\* the request makes the handler throw outside its inner try blocks: a JSON
\* null body (line 90), a summaryType that is no string (line 91), a note
\* whose content is no string (line 138)
Throws ==
    /\ pc # "idle"
    /\ req.method = "POST"
    /\ variant = "openai" => Len(req.userId) > 0
    /\ \/ req.body = "null"
       \/ /\ req.body = "object"
          /\ \/ req.summaryType.kind \notin {"undefined", "string"}
             \/ Len(req.type) > 0 /\ req.type = "note" /\ ~req.contentIsString

\* C12: an unexpected exception after the method check is caught by the
\* outer catch and answered with status 200 and source "fallback"; the summary
\* is taken from the text the pipeline has produced when there is such text,
\* and is the generic apology when there is none.
C12_UnexpectedErrorIsAFallback ==
    /\ Throws => OuterCatchRan
    /\ OuterCatchRan =>
          /\ resp.statusCode = 200
          /\ HasField("source") /\ resp.body.source = "fallback"
          /\ HasField("summary")
          /\ IF Len(textToSummarize) > 0 \/ Len(lastText) > 0
             THEN ExtractedFrom(resp.body.summary, textToSummarize \o lastText)
             ELSE resp.body.summary = UNEXPECTED_SUMMARY

\* a note whose content is no string is answered by the outer catch
C12_Witness ==
    /\ OuterCatchRan
    /\ Throws
    /\ req.type = "note" /\ ~req.contentIsString
    /\ resp.body.summary = UNEXPECTED_SUMMARY

-----------------------------------------------------------------------------
(* C13 *)

\* the text extracted from the loaded file, before OCR
ExtractedText == ExtractFileText(fileBuffer)

\* C13 as stated: for a file request with non-empty extracted text, OCR is
\* called if and only if the text scores below 0.25 or is shorter than 200
\* characters.
C13_OcrIffLowScoreOrShort ==
    (hasBuffer /\ Len(ExtractedText) > 0) =>
        (Called("ocr") <=> (ScoreBelow(ExtractedText, 1, 4) \/ Len(ExtractedText) < 200))

\* C13 amended: for a file request whose extracted text is not blank, OCR is
\* called if and only if the text scores below 0.25 or its trimmed length is
\* below 200; a blank extracted text is rejected without OCR.
C13_OcrIffLowScoreOrShortTrimmed ==
    hasBuffer =>
        IF IsBlank(ExtractedText)
        THEN ~Called("ocr")
        ELSE Called("ocr") <=>
                 (ScoreBelow(ExtractedText, 1, 4) \/ Len(Trim(ExtractedText)) < 200)

\* OCR called for a text of 200 characters or more that scores well: its
\* trimmed length alone triggers the call
C13_Witness ==
    /\ hasBuffer
    /\ Called("ocr")
    /\ ~ScoreBelow(ExtractedText, 1, 4)
    /\ Len(ExtractedText) >= 200
    /\ Len(Trim(ExtractedText)) < 200

-----------------------------------------------------------------------------
(* C14 *)

\* the OCR call has settled
OcrSettled == ocrOutcome.kind # "none"

\* what extractWithTextract returned; '' stands in when it threw
OcrText ==
    IF ocrOutcome.kind = "blocks" THEN extractWithTextract(ocrOutcome.blocks) ELSE <<>>

\* the loaded file is a PDF whose natively extracted text scores below 0.25
LowScorePdf == hasBuffer /\ IsPdf(fileBuffer) /\ ScoreBelow(ExtractedText, 1, 4)

\* C14 as stated: for a PDF whose natively extracted text scores below 0.25
\* OCR is invoked, and when it returns text scoring at least 0.25 that text,
\* not the native one, is what the sanitizer receives.
C14_LowScorePdfUsesOcrText ==
    LowScorePdf =>
        /\ Called("ocr")
        /\ (OcrSettled /\ ~ScoreBelow(OcrText, 1, 4)) => sanitizerInput = OcrText

\* C14 amended: the same for a PDF whose native text is not empty; an empty
\* native text (score 0) is rejected without OCR.  The OCR text is adopted
\* whenever it is not blank, whatever it scores.
C14_NonEmptyLowScorePdfUsesOcrText ==
    LowScorePdf =>
        IF IsBlank(ExtractedText)
        THEN ~Called("ocr") /\ Done /\ resp.statusCode = 400
        ELSE /\ Called("ocr")
             /\ (OcrSettled /\ ~ScoreBelow(OcrText, 1, 4)) => sanitizerInput = OcrText
             /\ (OcrSettled /\ ~IsBlank(OcrText)) => sanitizerInput = OcrText

\* a PDF of digits whose OCR text scores at least 0.25 and reaches the sanitizer
C14_Witness ==
    /\ LowScorePdf
    /\ OcrSettled
    /\ ~ScoreBelow(OcrText, 1, 4)
    /\ sanitizerInput = OcrText
    /\ OcrText # ExtractedText
    /\ Sanitized

-----------------------------------------------------------------------------
(* C15 *)

\* the OCR call threw, or returned nothing but whitespace
OcrFailed == OcrSettled /\ (ocrOutcome.kind = "error" \/ IsBlank(OcrText))

\* C15: when OCR fails, the sanitizer receives exactly the text extracted
\* before OCR, and the request goes on through sanitization and the gate as
\* it would without OCR: no error status for the failure, and a text that
\* passes the gate goes to the generative-text step.
C15_OcrFailureKeepsExtractedText ==
    OcrFailed =>
        /\ sanitizerInput = ExtractedText
        /\ Sanitized
        /\ sanitized = sanitizeText(ExtractedText)
        /\ Done => resp.statusCode \in {200, 400}
        /\ (Done /\ resp.statusCode = 400) => IsBlank(sanitized)
        /\ (~IsBlank(sanitized) /\ ~LowQuality(sanitized)) => stage = "Summarizing"

\* OCR threw for a short file, whose own text went on to the generative call
C15_Witness ==
    /\ OcrSettled
    /\ ocrOutcome.kind = "error"
    /\ sanitizerInput = ExtractedText
    /\ Called("gen")

-----------------------------------------------------------------------------
(* C16 *)

\* how often a service has been called for this request
CallCount(service) == CountIn(calls, {service})

\* C16: no retries: the storage read, the OCR service and the generative-text
\* service are each called at most once for a request, whatever each call
\* came back with.
C16_NoRetries ==
    /\ \A service \in {"storage", "ocr", "gen"} : CallCount(service) <= 1
    /\ \A i \in 1..Len(calls) : calls[i] \in {"storage", "ocr", "gen"}

\* each service was called once, OCR and the generative-text call failed, and
\* the request is answered
C16_Witness ==
    /\ Done
    /\ calls = <<"storage", "ocr", "gen">>
    /\ OcrFailed
    /\ GenFailed

-----------------------------------------------------------------------------
(* C17 *)

\* the sentence fragments of the text the inner catch splits that survive the
\* variant's minimum-length filter, trimmed
SurvivingSentences ==
    TrimAll(Sentences(textToSummarize, IF variant = "bedrock" THEN 10 ELSE 15))

\* the sentence fragments of the summary of the response
SummarySentences == NonEmpty(TrimAll(SplitRuns(resp.body.summary, SentenceEnd)))

\* C17: the extractive fallback summary joins the first k surviving sentence
\* fragments, with k between 1 and 5, in every variant.
C17_FallbackJoinsOneToFive ==
    (Done /\ GenFailed /\ HasField("summary")) =>
        \E k \in 1..5 :
            /\ k <= Len(SurvivingSentences)
            /\ SummarySentences = SubSeq(SurvivingSentences, 1, k)

-----------------------------------------------------------------------------
(* C18 *)

\* C18: the text placed in the prompt is the first budget-many characters of
\* the sanitized text followed by the truncation marker when the sanitized
\* text is longer than the budget, and the sanitized text unchanged when it is
\* not; it never exceeds the budget plus the length of the marker.
C18_PromptTextWithinBudget ==
    stage = "Summarizing" =>
        LET budget == IF variant = "bedrock" THEN 6000 ELSE 14000
            marker == Chars("... (truncated)")
        IN  /\ Len(sanitized) > budget =>
                   textToSummarize = SubSeq(sanitized, 1, budget) \o marker
            /\ Len(sanitized) <= budget => textToSummarize = sanitized
            /\ Len(textToSummarize) <= budget + Len(marker)

\* a sanitized text beyond the Bedrock budget, cut and marked, in the prompt of
\* the pending call
C18_Witness ==
    /\ pc = "gen"
    /\ variant = "bedrock"
    /\ Len(sanitized) > 6000
    /\ Len(textToSummarize) = 6015
    /\ SubSeq(textToSummarize, 1, 6000) = SubSeq(sanitized, 1, 6000)

-----------------------------------------------------------------------------
(* C19 *)

\* scoreTextQuality has returned
Scored == returned.fn = "scoreTextQuality"

\* the fraction s lies in [0, 1] and is well defined
InUnitInterval(s) ==
    /\ BigLess(Big(0), s.den)
    /\ ~BigLess(s.num, Big(0))
    /\ ~BigLess(s.den, s.num)

\* the score is 0.5 * letters/total + 0.3 * vowels/letters + 0.2 * min(words/80, 1)
\* over the counts returned, in small numbers: num / den with den = 400 T L,
\* or 400 when there is no letter
IsComposite(r) ==
    LET w == Min(r.words, WORD_SATURATION)
    IN  IF r.letters = 0
        THEN r.score = [num |-> Big(w), den |-> Big(400)]
        ELSE r.total * r.letters < 5000 =>
                 /\ r.score.den = Big(400 * r.total * r.letters)
                 /\ r.score.num = Big(200 * r.letters * r.letters
                                      + 120 * r.vowels * r.total
                                      + w * r.total * r.letters)

\* C19: scoreTextQuality is total, its score is the composite of the three
\* ratios, lies in [0, 1] for every text and is exactly 0 for the empty text.
C19_ScoreInUnitInterval ==
    Scored =>
        /\ InUnitInterval(returned.plain.score) /\ InUnitInterval(returned.padded.score)
        /\ IsComposite(returned.plain) /\ IsComposite(returned.padded)
        /\ Len(probe.t) = 0 => returned.plain.score.num = Big(0)

\* a text of more than 80 words was scored, and the empty text was
C19_Witness == Scored /\ returned.plain.words > 80

-----------------------------------------------------------------------------
(* C20 *)

\* a two-limb number as an integer, for the small ones
Small(a) == a.h * LIMB + a.l

\* two scores are the same fraction
SameScore(x, y) == x = y \/ Small(x.num) * Small(y.den) = Small(y.num) * Small(x.den)

\* C20: the score is invariant to leading and trailing whitespace: the score
\* of p + t + q equals the score of t for whitespace p and q.
C20_ScoreIgnoresPadding ==
    Scored => SameScore(returned.padded.score, returned.plain.score)

-----------------------------------------------------------------------------
(* C21 *)

\* sanitizeText has returned
SanitizeReturned == returned.fn = "sanitizeText"

\* the filtered result was longer than MAX_SANITIZED_CHARS and was cut
CapApplied == SanitizeReturned /\ Len(returned.once) = MAX_SANITIZED_CHARS

\* C21: sanitization is idempotent, also for a text whose filtered result
\* exceeds the cap: sanitizeText(sanitizeText(t)) = sanitizeText(t).
C21_SanitizeIsIdempotent ==
    SanitizeReturned => returned.twice = returned.once

\* below the cap the second pass changes nothing
C21_IdempotentBelowCap ==
    (SanitizeReturned /\ ~CapApplied) => returned.twice = returned.once

-----------------------------------------------------------------------------
(* C22 *)

\* C22: sanitization never increases length: Len(sanitizeText(t)) <= Len(t).
C22_SanitizeNeverLengthens ==
    SanitizeReturned => Len(returned.once) <= Len(returned.arg)

\* a text with a run outside ASCII, padding and a dropped token was sanitized
\* to a shorter, non-empty text
C22_Witness ==
    /\ SanitizeReturned
    /\ NBSP \in Range(returned.arg)
    /\ 0 < Len(returned.once)
    /\ Len(returned.once) < Len(returned.arg)

-----------------------------------------------------------------------------
(* C23 *)

\* extractTextFromPdfBuffer has returned
ExtractReturned == returned.fn = "extractTextFromPdfBuffer" /\ returned.at = "returned"

\* the PDF was written with at least one literal string that shows text
HasLiteralText == probe.kind = "pdf" /\ Len(probe.parts) > 0

\* C23: for a PDF with at least one content stream with literal-string text,
\* the extraction is non-empty and equals the cleaned literal strings of all
\* streams, in file order, joined by single spaces.
C23_ExtractionIsTheLiterals ==
    (ExtractReturned /\ HasLiteralText) =>
        /\ Len(returned.text) > 0
        /\ returned.text = Join(probe.parts, <<" ">>)

\* C23 as the code has it: the joined literal strings are cut at
\* MAX_EXTRACTED_CHARS characters.
C23_ExtractionIsTheLiteralsCapped ==
    (ExtractReturned /\ HasLiteralText) =>
        /\ Len(returned.text) > 0
        /\ returned.text = Substring(Join(probe.parts, <<" ">>), MAX_EXTRACTED_CHARS)

\* a PDF of two streams, one deflated, gave its three literal strings
C23_Witness ==
    /\ ExtractReturned
    /\ HasLiteralText
    /\ ZLIB \in Range(probe.t)
    /\ Len(returned.scanned) = 3
    /\ returned.text = Chars("First page Second page of two\\)")

-----------------------------------------------------------------------------
(* C24 *)

\* C24: the raw scan is taken exactly when the stream scan collected no text
\* part; its result is the runs of 5 or more printable ASCII bytes of the file,
\* in file order, joined by single spaces; when the stream scan collected a
\* part, no raw-scan run is added.
C24_RawScanIffNoParts ==
    ExtractReturned =>
        /\ returned.usedRaw <=> Len(returned.scanned) = 0
        /\ ~returned.usedRaw => returned.textParts = returned.scanned
        /\ (returned.usedRaw /\ probe.kind = "pdf") =>
               returned.text = Join(probe.runs, <<" ">>)

\* C24 as the code has it: each run has its whitespace collapsed and is
\* trimmed, a run that is blank is left out, and the joined runs are cut at
\* MAX_EXTRACTED_CHARS characters.
C24_RawScanIffNoPartsCleaned ==
    ExtractReturned =>
        /\ returned.usedRaw <=> Len(returned.scanned) = 0
        /\ ~returned.usedRaw => returned.textParts = returned.scanned
        /\ (returned.usedRaw /\ probe.kind = "pdf") =>
               returned.text = Substring(Join(probe.cleanRuns, <<" ">>),
                                         MAX_EXTRACTED_CHARS)

\* the raw scan ran on a file with a run shorter than 5 and a blank run
C24_Witness ==
    /\ ExtractReturned
    /\ returned.usedRaw
    /\ returned.text = Chars("%PDF-1.4 JFIF image Hello world")

-----------------------------------------------------------------------------
(* C26 *)

\* an iteration of the scan loop was completed: the loop is entered again
ScanIterated ==
    /\ InScanLoop
    /\ returned'.fn = "extractTextFromPdfBuffer"
    /\ returned'.at = "loop"

\* the index moved forward, to just past an "endstream" of the buffer
IndexAdvanced ==
    /\ returned'.idx > returned.idx
    /\ returned'.idx <= Len(Latin1(probe.t))
    /\ SubSeq(Latin1(probe.t), returned'.idx - Len(ENDSTREAM) + 1, returned'.idx)
           = ENDSTREAM

\* C26: every iteration of the stream-scanning loop that does not break moves
\* the scan index strictly forward, past the matched endstream; the index
\* never decreases or stalls.
C26_ScanIndexAdvances == [][ScanIterated => IndexAdvanced]_vars

\* C26: the stream-scanning loop terminates for every buffer.
C26_ScanLoopTerminates ==
    /\ C26_ScanIndexAdvances
    /\ InScanLoop ~> ~InScanLoop

\* the loop went through two streams, and was left with the index past the
\* second endstream
C26_Witness ==
    /\ returned.fn = "extractTextFromPdfBuffer"
    /\ returned.at = "after"
    /\ probe.kind = "pdf"
    /\ Len(returned.scanned) = 3
    /\ returned.idx = Len(probe.t) - Len(Chars("\nendobj\n"))

-----------------------------------------------------------------------------
(* C25 *)

\* the orders in which a request can have issued its external calls
PipelineOrders ==
    {<<>>, <<"storage">>, <<"storage", "ocr">>, <<"storage", "gen">>,
     <<"storage", "ocr", "gen">>, <<"gen">>}

\* C25: the external calls of a request occur in pipeline order: a storage
\* read (file requests only) precedes any OCR call, an OCR call precedes
\* sanitization, the generative-text call is issued only after the quality
\* gate on the sanitized text has passed, and no storage or OCR call follows
\* the generative call.
C25_CallsInPipelineOrder ==
    /\ calls \in PipelineOrders
    /\ CallCount("storage") > 0 => req.type = "file"
    /\ pc \in {"storage", "ocr"} => (~Sanitized /\ sanitizerInput = <<>>)
    /\ (CallCount("ocr") > 0 /\ Sanitized) => ocrOutcome.kind # "none"
    /\ CallCount("gen") > 0 =>
           /\ stage = "Summarizing"
           /\ ~IsBlank(sanitized)
           /\ ~Unreadable(sanitized)

\* a file request went through storage, OCR and the generative call
C25_Witness ==
    /\ Done
    /\ req.type = "file"
    /\ calls = <<"storage", "ocr", "gen">>
    /\ genOutcome.kind = "text"

-----------------------------------------------------------------------------
(* C27 *)

\* the space-delimited tokens of the text sanitizeText returned
ResultTokens == IF Len(returned.once) = 0 THEN <<>> ELSE SplitEach(returned.once, {" "})

\* a token with a letter, of at most 60 characters, and with a vowel if it is
\* longer than 5 characters
WellFormedToken(tok) ==
    /\ Range(tok) \cap Letters # {}
    /\ Len(tok) <= MAX_TOKEN_CHARS
    /\ Len(tok) > MAX_VOWELLESS_CHARS => Range(tok) \cap Vowels # {}

-----------------------------------------------------------------------------
(* C28 *)

\* the inner catch has answered: it alone sends SummariesFallback
InnerCatchRan == Done /\ "SummariesFallback" \in Range(metrics)

\* C28: in both variants, whenever the outer catch runs, lastText is still
\* empty and the summary is the generic "Summary unavailable due to an
\* unexpected error."; every failure after lastText has been set is answered
\* by the inner catch.
C28_OuterCatchSeesNoText ==
    /\ OuterCatchRan =>
          /\ lastText = <<>>
          /\ CallCount("gen") = 0
          /\ resp.body.summary = UNEXPECTED_SUMMARY
    /\ (Done /\ Len(lastText) > 0 /\ GenFailed) => (InnerCatchRan /\ ~OuterCatchRan)

\* the outer catch answered a request whose summaryType is a number
C28_Witness ==
    /\ OuterCatchRan
    /\ req.body = "object"
    /\ req.summaryType.kind = "number"
    /\ lastText = <<>>
    /\ resp.body.summary = UNEXPECTED_SUMMARY

-----------------------------------------------------------------------------
(* C29 *)

\* C29: in the OpenAI variant the truncation never applies: the sanitized
\* text is at most 12,000 characters, below the budget of 14,000, so the text
\* sent to the generative service is the whole sanitized text, and no
\* truncation marker is put into a prompt or a fallback summary: the marker's
\* words are there only when the sanitized content has them.
C29_OpenAINeverTruncates ==
    variant = "openai" =>
        /\ Len(sanitized) <= MAX_SANITIZED_CHARS
        /\ MAX_SANITIZED_CHARS < MAX_CONTENT_CHARS(variant)
        /\ stage = "Summarizing" => textToSummarize = sanitized
        /\ (InnerCatchRan /\ HasField("summary")
               /\ Includes(resp.body.summary, Chars("(truncated)"))) =>
              Includes(sanitized, Chars("(truncated)"))

\* a note longer than the budget was cut to 12,000 characters by the
\* sanitizer and sent whole to the generative service
C29_Witness ==
    /\ variant = "openai"
    /\ pc = "gen"
    /\ Len(req.content) > MAX_CONTENT_CHARS(variant)
    /\ Len(sanitized) = MAX_SANITIZED_CHARS
    /\ textToSummarize = sanitized

-----------------------------------------------------------------------------
(* C30 *)

\* the request names a file outside users/<userId>/
ForeignFile ==
    /\ req.type = "file"
    /\ Len(req.fileKey) > 0
    /\ ~StartsWith(req.fileKey, OwnPrefix(req))

\* the request has passed every check that comes before the one on the key
PassedEarlierChecks ==
    /\ req.method = "POST"
    /\ req.body = "object"
    /\ req.summaryType.kind \in {"undefined", "string"}
    /\ Len(req.content) > 0

Answered(status) == Done /\ resp.statusCode = status /\ calls = <<>>

====
